---- MODULE Spec2Model ----
(***************************************************************************)
(* Model of the natural-language query engine (edge function               *)
(* nlp_query_engine): the request handler with its cache, classifier, SQL  *)
(* synthesizer, vector retrieval and history recorder, over the tables of  *)
(* the migration.  Texts are sequences of one-character strings so that    *)
(* toLowerCase, includes, btoa and substring are computed, not assumed.    *)
(* The calls into supabase-js behave as that client does: database errors   *)
(* are returned in the result and never thrown, upsert resolves conflicts   *)
(* on the primary key unless onConflict names other columns, and the client *)
(* has no raw().                                                           *)
(***************************************************************************)
EXTENDS Integers, Sequences, FiniteSets, TLC

(***************************************************************************)
(* Characters and strings                                                  *)
(***************************************************************************)

\* The printable ASCII characters in code order; Ascii[i] has code 31 + i.
\* (The double quote, the backslash and the backtick, codes 34, 92 and 96, are held by
\* placeholders: no text of the model contains them.)
Ascii ==
  << " ", "!", "<quote>", "#", "$", "%", "&", "'", "(", ")", "*", "+", ",", "-", ".", "/",
     "0", "1", "2", "3", "4", "5", "6", "7", "8", "9", ":", ";", "<", "=", ">", "?",
     "@", "A", "B", "C", "D", "E", "F", "G", "H", "I", "J", "K", "L", "M", "N", "O",
     "P", "Q", "R", "S", "T", "U", "V", "W", "X", "Y", "Z", "[", "<backslash>", "]", "^", "_",
     "<backtick>", "a", "b", "c", "d", "e", "f", "g", "h", "i", "j", "k", "l", "m", "n", "o",
     "p", "q", "r", "s", "t", "u", "v", "w", "x", "y", "z", "{", "|", "}", "~" >>

\* The code unit of a character (String.prototype.charCodeAt).
Ord(c) == 31 + (CHOOSE i \in 1..Len(Ascii) : Ascii[i] = c)

\* String.prototype.toLowerCase on ASCII text: 'A'..'Z' move to 'a'..'z'.
toLowerCase(s) ==
  [i \in 1..Len(s) |-> IF Ord(s[i]) >= 65 /\ Ord(s[i]) <= 90
                         THEN Ascii[Ord(s[i]) + 32 - 31]
                         ELSE s[i]]

\* String.prototype.includes: k occurs in s as a contiguous substring.
includes(s, k) ==
  \E i \in 1..(Len(s) - Len(k) + 1) : SubSeq(s, i, i + Len(k) - 1) = k

\* Array.prototype.some over a keyword list.
some(keywords, s) == \E j \in 1..Len(keywords) : includes(s, keywords[j])

(***************************************************************************)
(* classifyQuery                                                           *)
(***************************************************************************)

\* 'count', 'average', 'sum', 'group by', 'order by', 'salary', 'department',
\* 'employees', 'how many', 'list all', 'show me all'
sqlKeywords ==
  << <<"c", "o", "u", "n", "t">>,
     <<"a", "v", "e", "r", "a", "g", "e">>,
     <<"s", "u", "m">>,
     <<"g", "r", "o", "u", "p", " ", "b", "y">>,
     <<"o", "r", "d", "e", "r", " ", "b", "y">>,
     <<"s", "a", "l", "a", "r", "y">>,
     <<"d", "e", "p", "a", "r", "t", "m", "e", "n", "t">>,
     <<"e", "m", "p", "l", "o", "y", "e", "e", "s">>,
     <<"h", "o", "w", " ", "m", "a", "n", "y">>,
     <<"l", "i", "s", "t", " ", "a", "l", "l">>,
     <<"s", "h", "o", "w", " ", "m", "e", " ", "a", "l", "l">> >>

\* 'skills', 'experience', 'resume', 'qualifications', 'background', 'python',
\* 'java', 'programming', 'certification'
docKeywords ==
  << <<"s", "k", "i", "l", "l", "s">>,
     <<"e", "x", "p", "e", "r", "i", "e", "n", "c", "e">>,
     <<"r", "e", "s", "u", "m", "e">>,
     <<"q", "u", "a", "l", "i", "f", "i", "c", "a", "t", "i", "o", "n", "s">>,
     <<"b", "a", "c", "k", "g", "r", "o", "u", "n", "d">>,
     <<"p", "y", "t", "h", "o", "n">>,
     <<"j", "a", "v", "a">>,
     <<"p", "r", "o", "g", "r", "a", "m", "m", "i", "n", "g">>,
     <<"c", "e", "r", "t", "i", "f", "i", "c", "a", "t", "i", "o", "n">> >>

hasSQLKeywords(query) == some(sqlKeywords, toLowerCase(query))

hasDocKeywords(query) == some(docKeywords, toLowerCase(query))

\* (Mutant of classifyQuery: the document test comes first.)
classifyQueryDocumentFirst(query) ==
  IF hasDocKeywords(query) THEN "document"
  ELSE IF hasSQLKeywords(query) /\ hasDocKeywords(query) THEN "hybrid"
  ELSE "sql"

classifyQuery(query) ==
  IF hasSQLKeywords(query) /\ hasDocKeywords(query) THEN "hybrid"
  ELSE IF hasDocKeywords(query) THEN "document"
  ELSE "sql"

(***************************************************************************)
(* generateCacheKey: btoa, strip non-alphanumerics, first 32 characters    *)
(***************************************************************************)

\* The base64 alphabet; Base64[v + 1] encodes the sextet v.
Base64 ==
  << "A", "B", "C", "D", "E", "F", "G", "H", "I", "J", "K", "L", "M", "N", "O", "P",
     "Q", "R", "S", "T", "U", "V", "W", "X", "Y", "Z", "a", "b", "c", "d", "e", "f",
     "g", "h", "i", "j", "k", "l", "m", "n", "o", "p", "q", "r", "s", "t", "u", "v",
     "w", "x", "y", "z", "0", "1", "2", "3", "4", "5", "6", "7", "8", "9", "+", "/" >>

\* The bytes of a string (btoa reads one byte per Latin-1 character).
RECURSIVE Sextets(_)
\* btoa's sextets: each 3 bytes give 4 sextets; a tail of 1 byte gives 2 and a
\* tail of 2 bytes gives 3.  The "=" padding that follows a tail is dropped here
\* because the replace below removes it anyway.
Sextets(bytes) ==
  IF Len(bytes) = 0 THEN << >>
  ELSE IF Len(bytes) = 1 THEN
    << bytes[1] \div 4, (bytes[1] % 4) * 16 >>
  ELSE IF Len(bytes) = 2 THEN
    << bytes[1] \div 4,
       (bytes[1] % 4) * 16 + bytes[2] \div 16,
       (bytes[2] % 16) * 4 >>
  ELSE
    << bytes[1] \div 4,
       (bytes[1] % 4) * 16 + bytes[2] \div 16,
       (bytes[2] % 16) * 4 + bytes[3] \div 64,
       bytes[3] % 64 >> \o Sextets(SubSeq(bytes, 4, Len(bytes)))

btoa(s) ==
  LET sx == Sextets([i \in 1..Len(s) |-> Ord(s[i])])
  IN  [i \in 1..Len(sx) |-> Base64[sx[i] + 1]]

\* .replace(/[^a-zA-Z0-9]/g, ''): of the base64 alphabet only "+" and "/" go.
stripNonAlnum(s) == SelectSeq(s, LAMBDA c : c # "+" /\ c # "/")

\* .substring(0, n)
substring0(s, n) == SubSeq(s, 1, IF Len(s) < n THEN Len(s) ELSE n)

KeyLength == 32

generateCacheKey(query, databaseId, userId) ==
  LET content == query \o <<"-">> \o databaseId \o <<"-">> \o userId
  IN  substring0(stripNonAlnum(btoa(content)), KeyLength)

(***************************************************************************)
(* Bounds of the model                                                     *)
(***************************************************************************)

\* Requests the engine receives in one run.
MaxRequests == 2

\* The clock, in minutes, stops advancing here.
MaxTime == 10

\* The clock advances this many minutes at a time.
TickLength == 5

\* Words joined into a probe text for the pure functions.
MaxWords == 2

\* The largest match_count of a probe call of match_documents.
MaxMatchCount == 2

\* Files of one upload to the document processor.
MaxFiles == 2

(***************************************************************************)
(* The world around the handler: callers, the schema catalog, the chunks   *)
(***************************************************************************)

\* Two callers (auth.users ids).
UserA ==
  << "f", "4", "7", "a", "c", "1", "0", "b", "-", "5", "8", "c", "c", "-", "4", "3", "7", "2",
     "-", "a", "5", "6", "7", "-", "0", "e", "0", "2", "b", "2", "c", "3", "d", "4", "7", "9" >>

UserB ==
  << "9", "b", "2", "d", "5", "c", "7", "e", "-", "1", "a", "3", "4", "-", "4", "f", "6", "b",
     "-", "8", "c", "9", "0", "-", "2", "e", "4", "d", "6", "f", "8", "a", "0", "b", "1", "c" >>

Users == {UserA, UserB}

\* Two discovered databases (discovered_databases.id).
DbA ==
  << "7", "c", "9", "e", "6", "6", "7", "9", "-", "7", "4", "2", "5", "-", "4", "0", "d", "e",
     "-", "9", "4", "4", "b", "-", "e", "0", "7", "f", "c", "1", "f", "9", "0", "a", "e", "7" >>

DbB ==
  << "c", "5", "6", "a", "4", "1", "8", "0", "-", "6", "5", "a", "a", "-", "4", "2", "e", "c",
     "-", "a", "9", "4", "5", "-", "5", "f", "d", "2", "1", "d", "e", "c", "0", "5", "3", "8" >>

DatabaseIds == {DbA, DbB}

\* Rows of discovered_databases: DbA belongs to UserA, DbB to UserB.
discovered_databases ==
  { [id |-> DbA, user_id |-> UserA, schema_data |-> {"employees", "departments"}],
    [id |-> DbB, user_id |-> UserB, schema_data |-> {"staff"}] }

\* Rows of document_chunks joined with their documents: the chunk id, and the
\* owner and filename of the parent document.
Chunks ==
  { [id |-> 1, user_id |-> UserA, filename |-> "alice_resume.pdf"],
    [id |-> 2, user_id |-> UserA, filename |-> "alice_review.docx"],
    [id |-> 3, user_id |-> UserB, filename |-> "bob_resume.pdf"] }

ChunkIds == {c.id : c \in Chunks}

\* Similarities in tenths: 1 - cosine distance of a chunk to the query
\* embedding.  generateEmbedding draws the embedding at random, so every
\* assignment of similarities to the chunks can occur.
Levels == {7, 8, 9}

\* The assignments the handler's searches draw from: no chunk above the
\* threshold, or every chunk above it at a similarity of its own.
EmbeddingDraws ==
  { [c \in ChunkIds |-> 7],
    [c \in ChunkIds |-> IF c = 2 THEN 9 ELSE 8] }

\* "How many employees do we have?"
QCount ==
  << "H", "o", "w", " ", "m", "a", "n", "y", " ", "e", "m", "p", "l", "o", "y", "e", "e", "s",
     " ", "d", "o", " ", "w", "e", " ", "h", "a", "v", "e", "?" >>

\* "python skills"
QSkills == << "p", "y", "t", "h", "o", "n", " ", "s", "k", "i", "l", "l", "s" >>

\* "Employees with Python skills earning over 100k"
QHybrid ==
  << "E", "m", "p", "l", "o", "y", "e", "e", "s", " ", "w", "i", "t", "h", " ", "P", "y", "t",
     "h", "o", "n", " ", "s", "k", "i", "l", "l", "s", " ", "e", "a", "r", "n", "i", "n", "g",
     " ", "o", "v", "e", "r", " ", "1", "0", "0", "k" >>

Queries == {QCount, QSkills, QHybrid}

\* The texts and ids a request can carry are few, so classifyQuery and
\* generateCacheKey are tabulated once for them (f @@ << >> is f, enumerated).
queryTypeOf == [q \in Queries |-> classifyQuery(q)] @@ << >>

cacheKeyOf ==
  [t \in Queries \X (DatabaseIds \cup {<< >>}) \X Users |->
     generateCacheKey(t[1], t[2], t[3])] @@ << >>

\* What a request can carry as its Authorization header: nothing, a token that
\* resolves to no user, or the token of a user.
NoHeader == "none"
BadToken == "bad"
TokenOf(u) == IF u = UserA THEN "tokenA" ELSE "tokenB"
AuthHeaders == {NoHeader, BadToken} \cup {TokenOf(u) : u \in Users}

\* An optional value: << >> is null/undefined, <<v>> is the value v.
None == << >>
Some(v) == << v >>

\* auth.getUser(token): the user of a token, or null.
getUser(token) ==
  IF \E u \in Users : TokenOf(u) = token
    THEN CHOOSE u \in Users : TokenOf(u) = token
    ELSE None

(***************************************************************************)
(* generateSQL and executeSQL                                              *)
(***************************************************************************)

\* 'how many employees'
kHowManyEmployees ==
  << "h", "o", "w", " ", "m", "a", "n", "y", " ", "e", "m", "p", "l", "o", "y", "e", "e", "s" >>

\* 'average salary'
kAverageSalary == << "a", "v", "e", "r", "a", "g", "e", " ", "s", "a", "l", "a", "r", "y" >>

\* 'department'
kDepartment == << "d", "e", "p", "a", "r", "t", "m", "e", "n", "t" >>

\* 'highest paid'
kHighestPaid == << "h", "i", "g", "h", "e", "s", "t", " ", "p", "a", "i", "d" >>

\* 'each department'
kEachDepartment ==
  << "e", "a", "c", "h", " ", "d", "e", "p", "a", "r", "t", "m", "e", "n", "t" >>

\* 'hired this year'
kHiredThisYear ==
  << "h", "i", "r", "e", "d", " ", "t", "h", "i", "s", " ", "y", "e", "a", "r" >>

\* The statements generateSQL can emit (line breaks of the template literals
\* written as single spaces).
SqlCount == "SELECT COUNT(*) as employee_count FROM employees;"
SqlAvgByDept == "SELECT d.dept_name, AVG(e.annual_salary) as avg_salary FROM employees e JOIN departments d ON e.dept_id = d.dept_id GROUP BY d.dept_name;"
SqlAvg == "SELECT AVG(annual_salary) as average_salary FROM employees;"
SqlTopByDept == "SELECT d.dept_name, e.full_name, e.annual_salary FROM employees e JOIN departments d ON e.dept_id = d.dept_id WHERE e.annual_salary = ( SELECT MAX(e2.annual_salary) FROM employees e2 WHERE e2.dept_id = e.dept_id ) ORDER BY e.annual_salary DESC;"
SqlTop == "SELECT full_name, annual_salary FROM employees ORDER BY annual_salary DESC LIMIT 5;"
SqlHiredThisYear == "SELECT full_name, position, join_date FROM employees WHERE EXTRACT(YEAR FROM join_date) = EXTRACT(YEAR FROM CURRENT_DATE);"
SqlDefault == "SELECT * FROM employees LIMIT 10;"

\* (Mutant of generateSQL: 'highest paid' is tested before 'average salary'.)
generateSQLHighestPaidFirst(query, schema) ==
  LET lowerQuery == toLowerCase(query)
  IN  IF includes(lowerQuery, kHowManyEmployees) THEN SqlCount
      ELSE IF includes(lowerQuery, kHighestPaid) THEN
        (IF includes(lowerQuery, kEachDepartment) THEN SqlTopByDept ELSE SqlTop)
      ELSE IF includes(lowerQuery, kAverageSalary) THEN
        (IF includes(lowerQuery, kDepartment) THEN SqlAvgByDept ELSE SqlAvg)
      ELSE IF includes(lowerQuery, kHiredThisYear) THEN SqlHiredThisYear
      ELSE SqlDefault

\* The schema parameter is never read.
generateSQL(query, schema) ==
  LET lowerQuery == toLowerCase(query)
  IN  IF includes(lowerQuery, kHowManyEmployees) THEN SqlCount
      ELSE IF includes(lowerQuery, kAverageSalary) THEN
        (IF includes(lowerQuery, kDepartment) THEN SqlAvgByDept ELSE SqlAvg)
      ELSE IF includes(lowerQuery, kHighestPaid) THEN
        (IF includes(lowerQuery, kEachDepartment) THEN SqlTopByDept ELSE SqlTop)
      ELSE IF includes(lowerQuery, kHiredThisYear) THEN SqlHiredThisYear
      ELSE SqlDefault

\* The five mock employee rows (emp_id and full_name of each).
MockEmployees ==
  << [emp_id |-> 1, full_name |-> "John Smith"],
     [emp_id |-> 2, full_name |-> "Sarah Johnson"],
     [emp_id |-> 3, full_name |-> "Mike Chen"],
     [emp_id |-> 4, full_name |-> "Emily Davis"],
     [emp_id |-> 5, full_name |-> "David Wilson"] >>

\* Mock execution: two statements have canned rows, every other statement
\* gets the mock employees.  The schema parameter is never read.
executeSQL(sql, schema) ==
  IF sql = SqlCount THEN << [employee_count |-> 150] >>
  ELSE IF sql = SqlAvg THEN << [average_salary |-> 87500] >>
  ELSE MockEmployees

(***************************************************************************)
(* match_documents (SQL function)                                          *)
(***************************************************************************)

Min(a, b) == IF a < b THEN a ELSE b

\* In the WHERE clause the bare user_id names both the function's parameter
\* and the column documents.user_id.  How PL/pgSQL resolves it is the
\* server's plpgsql.variable_conflict, which the migration does not set:
\* "error" (the default) rejects the statement when the function runs,
\* "use_variable" reads the parameter, "use_column" reads the column.
VariableConflicts == {"error", "use_variable", "use_column"}

\* (Mutant of MatchingChunks: the similarity filter admits the threshold
\* itself.)
MatchingChunksAtThreshold(sim, match_threshold, user_id, variable_conflict) ==
  { c \in Chunks :
      /\ IF variable_conflict = "use_column"
           THEN c.user_id = None \/ c.user_id = c.user_id
           ELSE user_id = None \/ c.user_id = user_id
      /\ sim[c.id] >= match_threshold }

\* WHERE (user_id IS NULL OR d.user_id = user_id) AND similarity > threshold,
\* with user_id read as the parameter or, under use_column, as the column.
MatchingChunks(sim, match_threshold, user_id, variable_conflict) ==
  { c \in Chunks :
      /\ IF variable_conflict = "use_column"
           THEN c.user_id = None \/ c.user_id = c.user_id
           ELSE user_id = None \/ c.user_id = user_id
      /\ sim[c.id] > match_threshold }

\* The row sequences the SELECT can return for the similarities sim: the
\* matching chunks by non-increasing similarity (chunks of equal similarity in
\* any order), cut to match_count rows.  Under "error" the function raises
\* 42702 and returns no rows: the caller gets an error and no data.
match_documents(sim, match_threshold, match_count, user_id, variable_conflict) ==
  LET M == MatchingChunks(sim, match_threshold, user_id, variable_conflict)
      n == Min(match_count, Cardinality(M))
      picks == { s \in [1..n -> M] :
                   /\ \A i, j \in 1..n : i # j => s[i] # s[j]
                   /\ \A i, j \in 1..n : i < j => sim[s[i].id] >= sim[s[j].id]
                   /\ \A c \in M :
                        (\A i \in 1..n : s[i] # c) =>
                          \A i \in 1..n : sim[c.id] <= sim[s[i].id] }
  IN  { [i \in 1..n |-> [id |-> s[i].id,
                         similarity |-> sim[s[i].id],
                         filename |-> s[i].filename]] : s \in picks }

\* match_threshold: 0.7 (in tenths) and match_count: 10 of the rpc call.
MatchThreshold == 7
MatchCount == 10

\* No probe call of match_documents.
NoSearch ==
  [ sim |-> [c \in ChunkIds |-> 0], match_count |-> 0, user_id |-> None,
    variable_conflict |-> "error", data |-> None, error |-> "" ]

(***************************************************************************)
(* State                                                                   *)
(***************************************************************************)

VARIABLES
  now,      \* the clock (Date.now()), in minutes
  cache,    \* the rows of query_cache
  history,  \* the rows of query_history, in insertion order
  reqs,     \* the requests: each handler's inputs, locals, position and response
  text,     \* a probe text for the pure functions
  intent,   \* classifyQuery's answer for the probe text ("" before it is asked)
  schema_data, \* a probe schema: the names of the tables of a database
  statement, \* generateSQL's answer for the probe text and schema ("" before)
  search,   \* a probe call of match_documents: its arguments and its answer
  documents,       \* the rows of documents the document processor has written
  document_chunks, \* the rows of document_chunks it has written
  upload    \* the document processor's request: inputs, locals, position, response

vars ==
  << now, cache, history, reqs, text, intent, schema_data, statement, search,
     documents, document_chunks, upload >>

engineVars == << now, cache, history, reqs >>

probeVars == << text, intent, schema_data, statement, search >>

processorVars == << documents, document_chunks, upload >>

\* An upload not yet received: the files of the form, the index i of the file
\* in the loop, its docRecord.id, the index k of the chunk being stored, the
\* processedDocuments so far and the response; and, what the handler never
\* reads, unstored: the ids of the documents a chunk of which was not stored.
IdleUpload ==
  [ pc |-> "idle", user |-> None, files |-> << >>, i |-> 0, docRecord |-> None,
    k |-> 0, processedDocuments |-> << >>, resp |-> None, unstored |-> {} ]

\* The document processor has done nothing.
ProcessorIdle ==
  /\ documents = {}
  /\ document_chunks = {}
  /\ upload = IdleUpload


\* new Date(Date.now() + 5 * 60 * 1000): five minutes.
TTL == 5

RequestIds == 1..MaxRequests

\* A request not yet received.  Beside the handler's locals it carries what
\* the handler never reads: calls, the collaborators invoked so far; lookup,
\* how the row of its cache key stood at the lookup ("absent", "live",
\* "atExpiry" when now = expires_at, "expired" when now > expires_at);
\* cachedFor, the (query, databaseId, userId) the cached result it holds was
\* computed for; searchError, storeError and historyError, the errors the
\* rpc and the two writes returned ("" before the call, "none",
\* "unavailable", or the database's error code); cancelled, whether the
\* caller has given the call up.
IdleRequest ==
  [ pc |-> "idle", authHeader |-> NoHeader, user |-> None,
    query |-> << >>, databaseId |-> << >>, startTime |-> 0,
    cacheKey |-> << >>, cachedResult |-> None, cachedFor |-> None,
    queryType |-> "", sqlResult |-> None, result |-> None,
    resp |-> None, calls |-> {}, lookup |-> "",
    searchError |-> "", storeError |-> "", historyError |-> "",
    cancelled |-> FALSE ]

\* An optional field of a JavaScript object.
Field(obj, name) == IF name \in DOMAIN obj THEN Some(obj[name]) ELSE None

Unauthorized == [status |-> 401, body |-> [error |-> "Unauthorized"]]

\* The catch block's response.
Failed(message) ==
  [status |-> 500, body |-> [error |-> "Query processing failed", details |-> message]]

Ok(body) == [status |-> 200, body |-> body]

(***************************************************************************)
(* The cache and history tables                                            *)
(***************************************************************************)

\* (Mutant of liveRows: the expires_at filter is forgotten.)
liveRowsIgnoringExpiry(rows, cacheKey, t) ==
  { row \in rows : row.cache_key = cacheKey }

\* select('results').eq('cache_key', k).gt('expires_at', now).single():
\* the rows that match; single() gives data only when there is exactly one.
liveRows(rows, cacheKey, t) ==
  { row \in rows : row.cache_key = cacheKey /\ row.expires_at > t }

checkCache(rows, cacheKey, t) ==
  LET data == liveRows(rows, cacheKey, t)
  IN  IF Cardinality(data) = 1 THEN Some((CHOOSE row \in data : TRUE).results) ELSE None

\* (Mutant of updateCacheHit: a hit moves the entry's expires_at a TTL on.)
updateCacheHitExtending(rows, cacheKey, t) ==
  [threw |-> TRUE,
   rows |-> { IF row.cache_key = cacheKey
                THEN [row EXCEPT !.expires_at = @ + TTL]
                ELSE row : row \in rows }]

\* updateCacheHit builds its update from supabaseClient.raw('hit_count + 1').
\* The supabase-js v2 client has no member raw, so evaluating the argument
\* raises a TypeError before any request is sent: the call throws and the
\* table is left as it is.
updateCacheHit(rows, cacheKey, t) == [threw |-> TRUE, rows |-> rows]

\* (Mutant of cacheResult: cache_key is not UNIQUE, every store inserts its
\* row.)
cacheResultWithoutUnique(rows, cacheKey, query, result, origin, t) ==
  [error |-> "none",
   rows |-> rows \cup
     { [ cache_key |-> cacheKey, query_text |-> query,
         results |-> result, expires_at |-> t + TTL,
         hit_count |-> 0, created_at |-> t, last_accessed |-> t,
         computedFor |-> origin ] }]

\* (Mutant of cacheResult: expires_at is the time of the store, the TTL is
\* forgotten.)
cacheResultWithoutTTL(rows, cacheKey, query, result, origin, t) ==
  IF \E row \in rows : row.cache_key = cacheKey
    THEN [error |-> "23505", rows |-> rows]
    ELSE [error |-> "none",
          rows |-> rows \cup
            { [ cache_key |-> cacheKey, query_text |-> query,
                results |-> result, expires_at |-> t,
                hit_count |-> 0, created_at |-> t, last_accessed |-> t,
                computedFor |-> origin ] }]

\* upsert({cache_key, query_text, results, expires_at}) without onConflict:
\* the conflict target is the primary key id, which the row does not carry
\* and the table generates anew.  With no row of this cache_key the row is
\* inserted (hit_count 0, created_at and last_accessed now()); with one, the
\* UNIQUE constraint on cache_key rejects the insert, the error is returned
\* (not thrown) and ignored, and the table is left as it is.
\* (computedFor is no column: it notes the (query, databaseId, userId) the
\* stored result was computed for.)
cacheResult(rows, cacheKey, query, result, origin, t) ==
  IF \E row \in rows : row.cache_key = cacheKey
    THEN [error |-> "23505", rows |-> rows]
    ELSE [error |-> "none",
          rows |-> rows \cup
            { [ cache_key |-> cacheKey, query_text |-> query,
                results |-> result, expires_at |-> t + TTL,
                hit_count |-> 0, created_at |-> t, last_accessed |-> t,
                computedFor |-> origin ] }]

\* insert into query_history; the cache_key column is derived with an empty
\* databaseId.
storeQueryHistory(rows, userId, query, result) ==
  Append(rows, [ user_id |-> userId, query_text |-> query,
                 query_type |-> result.queryType,
                 generated_sql |-> Field(result, "generatedSQL"),
                 results |-> [ sql |-> Field(result, "sqlResults"),
                               documents |-> Field(result, "documentResults") ],
                 performance_metrics |-> result.performanceMetrics,
                 cache_key |-> cacheKeyOf[<< query, << >>, userId >>] ])

(***************************************************************************)
(* The schema catalog                                                      *)
(***************************************************************************)

\* (Mutant of dbData: the user_id filter is forgotten.)
dbDataOfAnyOwner(databaseId, userId, dbUp) ==
  { db \in discovered_databases : dbUp /\ db.id = databaseId }

\* select('schema_data').eq('id', databaseId).eq('user_id', userId).single():
\* the rows that match, none when the read fails (dbUp false); id is the
\* primary key, so there is at most one.
dbData(databaseId, userId, dbUp) ==
  { db \in discovered_databases :
      dbUp /\ db.id = databaseId /\ db.user_id = userId }

(***************************************************************************)
(* The results the three query paths build                                 *)
(***************************************************************************)

\* The object processSQLQuery returns.
sqlQueryResult(generatedSQL, sqlResults) ==
  [ queryType |-> "sql",
    sqlResults |-> sqlResults,
    generatedSQL |-> generatedSQL,
    performanceMetrics |->
      [responseTime |-> 0, cacheHit |-> FALSE, resultsCount |-> Len(sqlResults)],
    sources |-> << "database" >> ]

\* (Mutant of documentQueryResult: sources names the document of one match
\* only.)
documentQueryResultWithSourcesOnce(chunks) ==
  LET documentResults ==
        IF chunks = None THEN << >>
        ELSE [i \in 1..Len(chunks[1]) |->
                [ id |-> chunks[1][i].id,
                  similarity |-> chunks[1][i].similarity,
                  document |-> chunks[1][i].filename ]]
      first == { i \in 1..Len(documentResults) :
                   \A j \in 1..Len(documentResults) :
                     documentResults[j].id >= documentResults[i].id }
  IN  [ queryType |-> "document",
        documentResults |-> documentResults,
        performanceMetrics |->
          [responseTime |-> 0, cacheHit |-> FALSE, resultsCount |-> Len(documentResults)],
        sources |-> IF first = {} THEN << >>
                    ELSE << documentResults[CHOOSE i \in first : TRUE].document >> ]

\* The object processDocumentQuery returns for the rpc's data (null on an rpc
\* error): chunks?.map(...) || [].
documentQueryResult(chunks) ==
  LET documentResults ==
        IF chunks = None THEN << >>
        ELSE [i \in 1..Len(chunks[1]) |->
                [ id |-> chunks[1][i].id,
                  similarity |-> chunks[1][i].similarity,
                  document |-> chunks[1][i].filename ]]
  IN  [ queryType |-> "document",
        documentResults |-> documentResults,
        performanceMetrics |->
          [responseTime |-> 0, cacheHit |-> FALSE, resultsCount |-> Len(documentResults)],
        sources |-> [i \in 1..Len(documentResults) |-> documentResults[i].document] ]

\* (Mutant of hybridQueryResult: the document matches are left out when
\* there are none.)
hybridQueryResultDroppingEmpty(sqlResult, docResult) ==
  IF Len(docResult.documentResults) = 0
    THEN [sqlResult EXCEPT !.queryType = "hybrid"]
    ELSE [ queryType |-> "hybrid",
           sqlResults |-> sqlResult.sqlResults,
           documentResults |-> docResult.documentResults,
           generatedSQL |-> sqlResult.generatedSQL,
           performanceMetrics |->
             [ responseTime |-> 0, cacheHit |-> FALSE,
               resultsCount |-> Len(sqlResult.sqlResults)
                                  + Len(docResult.documentResults) ],
           sources |-> sqlResult.sources \o docResult.sources ]

\* The object processHybridQuery returns from the two legs' results.
hybridQueryResult(sqlResult, docResult) ==
  [ queryType |-> "hybrid",
    sqlResults |-> sqlResult.sqlResults,
    documentResults |-> docResult.documentResults,
    generatedSQL |-> sqlResult.generatedSQL,
    performanceMetrics |->
      [ responseTime |-> 0, cacheHit |-> FALSE,
        resultsCount |-> Len(sqlResult.sqlResults) + Len(docResult.documentResults) ],
    sources |-> sqlResult.sources \o docResult.sources ]

(***************************************************************************)
(* The request handler, one action per step between suspension points      *)
(***************************************************************************)

Init ==
  /\ now = 0
  /\ cache = {}
  /\ history = << >>
  /\ reqs = [r \in RequestIds |-> IdleRequest]
  /\ text = << >>
  /\ intent = ""
  /\ schema_data = {}
  /\ statement = ""
  /\ search = NoSearch
  /\ ProcessorIdle

\* A request arrives (requests are numbered in their order of arrival): the
\* handler takes startTime, reads the Authorization header, resolves the user
\* and parses the body (a JSON object with a query and a databaseId).
\* Without a header authHeader is null and authHeader.replace throws, which
\* the catch block answers; with a token of no user the handler answers 401.
Receive(r, authHeader, query, databaseId) ==
  /\ reqs[r].pc = "idle"
  /\ r > 1 => reqs[r - 1].pc # "idle"
  /\ LET user == getUser(authHeader)
         rq == [reqs[r] EXCEPT !.authHeader = authHeader, !.startTime = now]
     IN  reqs' = [reqs EXCEPT ![r] =
           IF authHeader = NoHeader THEN
             [rq EXCEPT !.pc = "done",
                        !.resp = Some(Failed("Cannot read properties of null"))]
           ELSE IF user = None THEN
             [rq EXCEPT !.pc = "done", !.resp = Some(Unauthorized)]
           ELSE
             [rq EXCEPT !.pc = "checkCache", !.user = user,
                        !.query = query, !.databaseId = databaseId]]
  /\ UNCHANGED << now, cache, history, probeVars, processorVars >>

\* generateCacheKey, then checkCache reads the table.
CheckCache(r) ==
  /\ reqs[r].pc = "checkCache"
  /\ LET rq == reqs[r]
         cacheKey == cacheKeyOf[<< rq.query, rq.databaseId, rq.user >>]
         stored == { row \in cache : row.cache_key = cacheKey }
         cachedResult == checkCache(cache, cacheKey, now)
     IN  reqs' = [reqs EXCEPT ![r] =
           [rq EXCEPT !.pc = "checked",
                      !.cacheKey = cacheKey,
                      !.cachedResult = cachedResult,
                      !.cachedFor =
                         IF cachedResult = None THEN None
                         ELSE Some((CHOOSE row \in stored :
                                      row.results = cachedResult[1]).computedFor),
                      !.lookup =
                         IF stored = {} THEN "absent"
                         ELSE IF \E row \in stored : now > row.expires_at THEN "expired"
                         ELSE IF \E row \in stored : now = row.expires_at THEN "atExpiry"
                         ELSE "live"]]
  /\ UNCHANGED << now, cache, history, probeVars, processorVars >>

\* The cache hit branch: updateCacheHit, then the cached result is returned
\* with responseTime and cacheHit overwritten.  When updateCacheHit throws,
\* the catch block answers instead.
UpdateCacheHit(r) ==
  /\ reqs[r].pc = "checked"
  /\ reqs[r].cachedResult # None
  /\ LET rq == reqs[r]
         out == updateCacheHit(cache, rq.cacheKey, now)
         cachedResult == rq.cachedResult[1]
     IN  /\ cache' = out.rows
         /\ reqs' = [reqs EXCEPT ![r] =
              [rq EXCEPT
                 !.pc = "done",
                 !.resp =
                   IF out.threw
                     THEN Some(Failed("supabaseClient.raw is not a function"))
                     ELSE Some(Ok([cachedResult EXCEPT
                            !.performanceMetrics =
                               [@ EXCEPT !.responseTime = now - rq.startTime,
                                         !.cacheHit = TRUE]]))]]
  /\ UNCHANGED << now, history, probeVars, processorVars >>

\* The cache miss branch for a query classified sql or hybrid:
\* processSQLQuery reads the caller's schema (dbUp false: the read fails and
\* data is null), throws 'Database not found' without one, and otherwise
\* generates and executes the statement.  A sql query goes on to cacheResult,
\* a hybrid query to its document leg.
ProcessSQLQuery(r, dbUp) ==
  /\ reqs[r].pc = "checked"
  /\ reqs[r].cachedResult = None
  /\ queryTypeOf[reqs[r].query] \in {"sql", "hybrid"}
  /\ LET rq == reqs[r]
         queryType == queryTypeOf[rq.query]
         found == dbData(rq.databaseId, rq.user, dbUp)
         schema == (CHOOSE db \in found : TRUE).schema_data
         generatedSQL == generateSQL(rq.query, schema)
         sqlResults == executeSQL(generatedSQL, schema)
         sqlResult == sqlQueryResult(generatedSQL, sqlResults)
     IN  reqs' = [reqs EXCEPT ![r] =
           IF found = {} THEN
             [rq EXCEPT !.pc = "done", !.queryType = queryType,
                        !.calls = @ \cup {"classify", "schema"},
                        !.resp = Some(Failed("Database not found"))]
           ELSE IF queryType = "sql" THEN
             [rq EXCEPT !.pc = "cacheResult", !.queryType = queryType,
                        !.calls = @ \cup {"classify", "schema", "synthesize", "execute"},
                        !.result = Some(sqlResult)]
           ELSE
             [rq EXCEPT !.pc = "hybridDocument", !.queryType = queryType,
                        !.calls = @ \cup {"classify", "schema", "synthesize", "execute"},
                        !.sqlResult = Some(sqlResult)]]
  /\ UNCHANGED << now, cache, history, probeVars, processorVars >>

\* processDocumentQuery, as the whole of a document query or as the second
\* leg of a hybrid one: the embedding is drawn at random (sim), the rpc
\* returns the matching rows or fails (data is null): it fails when the
\* database cannot be reached (rpcUp false) or rejects the function's
\* statement (variable_conflict "error").
ProcessDocumentQuery(r, sim, rpcUp, variable_conflict) ==
  /\ \/ /\ reqs[r].pc = "checked"
        /\ reqs[r].cachedResult = None
        /\ queryTypeOf[reqs[r].query] = "document"
     \/ reqs[r].pc = "hybridDocument"
  /\ \E rows \in match_documents(sim, MatchThreshold, MatchCount, reqs[r].user,
                                 variable_conflict) :
       LET rq == reqs[r]
           queryType == queryTypeOf[rq.query]
           failed == ~ rpcUp \/ variable_conflict = "error"
           docResult == documentQueryResult(IF failed THEN None ELSE Some(rows))
       IN  reqs' = [reqs EXCEPT ![r] =
             [rq EXCEPT
                !.pc = "cacheResult", !.queryType = queryType,
                !.calls = @ \cup {"classify", "embed", "search"},
                !.searchError = IF failed THEN "unavailable" ELSE "none",
                !.result = IF rq.pc = "hybridDocument"
                             THEN Some(hybridQueryResult(rq.sqlResult[1], docResult))
                             ELSE Some(docResult)]]
  /\ UNCHANGED << now, cache, history, probeVars, processorVars >>

\* responseTime is set and cacheResult upserts the row (dbUp false: the
\* write fails, which is returned and ignored).
CacheResult(r, dbUp) ==
  /\ reqs[r].pc = "cacheResult"
  /\ LET rq == reqs[r]
         result == [rq.result[1] EXCEPT
                      !.performanceMetrics.responseTime = now - rq.startTime]
         out == IF dbUp
                  THEN cacheResult(cache, rq.cacheKey, rq.query, result,
                                   << rq.query, rq.databaseId, rq.user >>, now)
                  ELSE [error |-> "unavailable", rows |-> cache]
     IN  /\ cache' = out.rows
         /\ reqs' = [reqs EXCEPT ![r] =
              [rq EXCEPT !.pc = "storeQueryHistory", !.result = Some(result),
                         !.storeError = out.error]]
  /\ UNCHANGED << now, history, probeVars, processorVars >>

\* (Mutant of StoreQueryHistory: a failed insert is thrown, and the catch
\* block answers.)
StoreQueryHistoryThrowing(r, dbUp) ==
  /\ reqs[r].pc = "storeQueryHistory"
  /\ LET rq == reqs[r]
     IN  /\ history' = IF dbUp
                         THEN storeQueryHistory(history, rq.user, rq.query, rq.result[1])
                         ELSE history
         /\ reqs' = [reqs EXCEPT ![r] =
              [rq EXCEPT !.pc = "done",
                         !.resp = IF dbUp THEN Some(Ok(rq.result[1]))
                                  ELSE Some(Failed("insert failed")),
                         !.historyError = IF dbUp THEN "none" ELSE "unavailable"]]
  /\ UNCHANGED << now, cache, probeVars, processorVars >>

\* storeQueryHistory inserts the record (dbUp false: the insert fails, which
\* is returned and ignored) and the handler answers with the result.
StoreQueryHistory(r, dbUp) ==
  /\ reqs[r].pc = "storeQueryHistory"
  /\ LET rq == reqs[r]
     IN  /\ history' = IF dbUp
                         THEN storeQueryHistory(history, rq.user, rq.query, rq.result[1])
                         ELSE history
         /\ reqs' = [reqs EXCEPT ![r] =
              [rq EXCEPT !.pc = "done", !.resp = Some(Ok(rq.result[1])),
                         !.historyError = IF dbUp THEN "none" ELSE "unavailable"]]
  /\ UNCHANGED << now, cache, probeVars, processorVars >>

\* Time passes.
Tick ==
  /\ now < MaxTime
  /\ now' = now + TickLength
  /\ UNCHANGED << cache, history, reqs, probeVars, processorVars >>

Next ==
  \/ \E r \in RequestIds, a \in AuthHeaders, q \in Queries, d \in DatabaseIds :
       Receive(r, a, q, d)
  \/ \E r \in RequestIds : CheckCache(r)
  \/ \E r \in RequestIds : UpdateCacheHit(r)
  \/ \E r \in RequestIds, dbUp \in BOOLEAN : ProcessSQLQuery(r, dbUp)
  \/ \E r \in RequestIds, sim \in EmbeddingDraws, rpcUp \in BOOLEAN,
        variable_conflict \in VariableConflicts :
       ProcessDocumentQuery(r, sim, rpcUp, variable_conflict)
  \/ \E r \in RequestIds, dbUp \in BOOLEAN : CacheResult(r, dbUp)
  \/ \E r \in RequestIds, dbUp \in BOOLEAN : StoreQueryHistory(r, dbUp)
  \/ Tick

Spec == Init /\ [][Next]_vars

\* The caller gives up a call in flight (disconnects or times out).  The
\* request's signal is aborted; the handler never reads req.signal and
\* passes no signal to its calls, so nothing else changes.
Cancel(r) ==
  /\ reqs[r].pc \notin {"idle", "done"}
  /\ ~ reqs[r].cancelled
  /\ reqs' = [reqs EXCEPT ![r].cancelled = TRUE]
  /\ UNCHANGED << now, cache, history, probeVars, processorVars >>

\* One call on an empty cache, which its caller may give up at any point.
CancelNext ==
  \/ \E a \in AuthHeaders, q \in Queries, d \in DatabaseIds : Receive(1, a, q, d)
  \/ CheckCache(1)
  \/ \E dbUp \in BOOLEAN : ProcessSQLQuery(1, dbUp)
  \/ \E sim \in EmbeddingDraws, rpcUp \in BOOLEAN,
        variable_conflict \in VariableConflicts :
       ProcessDocumentQuery(1, sim, rpcUp, variable_conflict)
  \/ \E dbUp \in BOOLEAN : CacheResult(1, dbUp)
  \/ \E dbUp \in BOOLEAN : StoreQueryHistory(1, dbUp)
  \/ Cancel(1)
  \/ Tick

CancelSpec == Init /\ [][CancelNext]_vars

(***************************************************************************)
(* The document processor (edge function document_processor)               *)
(***************************************************************************)

\* The files an upload can hold: the name, the type getFileType reads from
\* it, and the number of chunks intelligentChunking cuts its content into
\* (none for an empty text, whose only chunk would trim to the empty string).
Files ==
  { [name |-> "notes.txt", file_type |-> "txt", chunks |-> 1],
    [name |-> "empty.txt", file_type |-> "txt", chunks |-> 0],
    [name |-> "resume.pdf", file_type |-> "pdf", chunks |-> 2] }

\* formData.getAll('files'): at most MaxFiles files.
Uploads == UNION { [1..n -> Files] : n \in 0..MaxFiles }

\* The end of the loop body: the next file, or the response after the last.
nextFile(u) ==
  IF u.i < Len(u.files)
    THEN [u EXCEPT !.pc = "insert", !.i = @ + 1, !.docRecord = None, !.k = 0]
    ELSE [u EXCEPT !.pc = "done",
                   !.resp = Some([status |-> 200,
                                  body |-> [success |-> TRUE,
                                            processed |-> u.processedDocuments]])]

\* processedDocuments.push({id, filename, chunks, status: 'completed'})
pushCompleted(u) ==
  [u EXCEPT !.processedDocuments =
     Append(@, [ id |-> u.docRecord[1], filename |-> u.files[u.i].name,
                 chunks |-> u.files[u.i].chunks, status |-> "completed" ])]

\* An upload arrives: the user is resolved and the form is read.  Without a
\* header authHeader.replace throws and the outer catch answers; a token of
\* no user is answered 401, a form without files 400.
ReceiveUpload(authHeader, files) ==
  /\ upload.pc = "idle"
  /\ LET user == getUser(authHeader)
     IN  upload' =
           IF authHeader = NoHeader THEN
             [upload EXCEPT !.pc = "done",
                !.resp = Some([status |-> 500,
                               body |-> [error |-> "Document processing failed"]])]
           ELSE IF user = None THEN
             [upload EXCEPT !.pc = "done", !.resp = Some(Unauthorized)]
           ELSE IF Len(files) = 0 THEN
             [upload EXCEPT !.pc = "done",
                !.resp = Some([status |-> 400,
                               body |-> [error |-> "No files provided"]])]
           ELSE
             [upload EXCEPT !.pc = "insert", !.user = user, !.files = files, !.i = 1]
  /\ UNCHANGED << documents, document_chunks, engineVars, probeVars >>

\* The document record of the file is inserted with status 'processing' and
\* read back.  When the insert fails (dbUp false) docError is thrown and the
\* loop's catch pushes an error entry; no record exists then.
InsertDocument(dbUp) ==
  /\ upload.pc = "insert"
  /\ LET file == upload.files[upload.i]
         id == Cardinality(documents) + 1
     IN  IF dbUp
           THEN /\ documents' = documents \cup
                     { [ id |-> id, user_id |-> upload.user, filename |-> file.name,
                         file_type |-> file.file_type, status |-> "processing",
                         upload_progress |-> 0 ] }
                /\ upload' = [upload EXCEPT !.pc = "extract", !.docRecord = Some(id)]
           ELSE /\ documents' = documents
                /\ upload' = nextFile(
                     [upload EXCEPT !.processedDocuments =
                        Append(@, [filename |-> file.name, status |-> "error"])])
  /\ UNCHANGED << document_chunks, engineVars, probeVars >>

\* extractTextContent and intelligentChunking: the text of the uploaded file
\* (or the simulated extraction) is read and cut into chunks; nothing here
\* throws for a file of the form.
ExtractTextContent ==
  /\ upload.pc = "extract"
  /\ upload' = [upload EXCEPT !.pc = "update"]
  /\ UNCHANGED << documents, document_chunks, engineVars, probeVars >>

\* The record is updated to status 'completed', before any chunk is stored.
\* The update's error is returned and not read (dbUp false: the record stays
\* as inserted).  A file without chunks is done then.
UpdateDocument(dbUp) ==
  /\ upload.pc = "update"
  /\ documents' =
       IF dbUp
         THEN { IF doc.id = upload.docRecord[1]
                  THEN [doc EXCEPT !.status = "completed", !.upload_progress = 100]
                  ELSE doc : doc \in documents }
         ELSE documents
  /\ upload' = IF upload.files[upload.i].chunks = 0
                 THEN nextFile(pushCompleted(upload))
                 ELSE [upload EXCEPT !.pc = "chunks", !.k = 1]
  /\ UNCHANGED << document_chunks, engineVars, probeVars >>

\* generateEmbedding (a local mock) and the insert of one chunk, whose error
\* is returned and not read (dbUp false: the chunk is not stored).  After
\* the last chunk the file is pushed as completed.
StoreChunk(dbUp) ==
  /\ upload.pc = "chunks"
  /\ document_chunks' =
       IF dbUp
         THEN document_chunks \cup
                { [document_id |-> upload.docRecord[1], chunk_index |-> upload.k - 1] }
         ELSE document_chunks
  /\ LET u == [upload EXCEPT !.unstored =
                  IF dbUp THEN @ ELSE @ \cup {upload.docRecord[1]}]
     IN  upload' = IF upload.k < upload.files[upload.i].chunks
                     THEN [u EXCEPT !.k = @ + 1]
                     ELSE nextFile(pushCompleted(u))
  /\ UNCHANGED << documents, engineVars, probeVars >>

UploadNext ==
  \/ \E a \in AuthHeaders, files \in Uploads : ReceiveUpload(a, files)
  \/ \E dbUp \in BOOLEAN : InsertDocument(dbUp)
  \/ ExtractTextContent
  \/ \E dbUp \in BOOLEAN : UpdateDocument(dbUp)
  \/ \E dbUp \in BOOLEAN : StoreChunk(dbUp)

UploadSpec == Init /\ [][UploadNext]_vars

(***************************************************************************)
(* The pure functions on probe texts                                       *)
(***************************************************************************)

\* The vocabulary of the probe texts: keywords of both lists in several
\* casings, halves of two-word keywords, a word of no list, and words that
\* hold a keyword inside them ("Resume" holds 'sum', "account" holds 'count').
Words ==
  { << "c", "o", "u", "n", "t" >>,
    << "S", "a", "l", "a", "r", "y" >>,
    << "h", "o", "w" >>,
    << "m", "a", "n", "y" >>,
    << "g", "r", "o", "u", "p" >>,
    << "b", "y" >>,
    << "s", "k", "i", "l", "l", "s" >>,
    << "J", "A", "V", "A" >>,
    << "R", "e", "s", "u", "m", "e" >>,
    << "h", "e", "l", "l", "o" >>,
    << "a", "c", "c", "o", "u", "n", "t" >> }

RECURSIVE Join(_)
\* The words of ws separated by single spaces.
Join(ws) ==
  IF Len(ws) = 0 THEN << >>
  ELSE IF Len(ws) = 1 THEN ws[1]
  ELSE ws[1] \o << " " >> \o Join(Tail(ws))

\* Every text of at most MaxWords words.
Texts == { Join(ws) : ws \in UNION { [1..k -> Words] : k \in 0..MaxWords } }

ProbeInit ==
  /\ text \in Texts
  /\ intent = ""
  /\ schema_data = {}
  /\ statement = ""
  /\ search = NoSearch
  /\ ProcessorIdle
  /\ now = 0
  /\ cache = {}
  /\ history = << >>
  /\ reqs = [r \in RequestIds |-> IdleRequest]

\* classifyQuery is applied to the probe text.
Classify ==
  /\ intent = ""
  /\ intent' = classifyQuery(text)
  /\ UNCHANGED << text, schema_data, statement, search, engineVars, processorVars >>

ProbeNext == Classify

ProbeSpec == ProbeInit /\ [][ProbeNext]_vars

\* The vocabulary of the texts given to generateSQL: the phrases of the
\* templates in several casings, the two qualifying phrases, and a word of no
\* template.
Phrases ==
  { <<"H", "o", "w", " ", "m", "a", "n", "y", " ", "e", "m", "p", "l", "o", "y", "e", "e", "s">>,
    <<"a", "v", "e", "r", "a", "g", "e", " ", "s", "a", "l", "a", "r", "y">>,
    <<"A", "V", "E", "R", "A", "G", "E", " ", "S", "A", "L", "A", "R", "Y">>,
    <<"d", "e", "p", "a", "r", "t", "m", "e", "n", "t">>,
    <<"h", "i", "g", "h", "e", "s", "t", " ", "p", "a", "i", "d">>,
    <<"H", "i", "g", "h", "e", "s", "t", " ", "P", "a", "i", "d">>,
    <<"e", "a", "c", "h", " ", "d", "e", "p", "a", "r", "t", "m", "e", "n", "t">>,
    <<"h", "i", "r", "e", "d", " ", "t", "h", "i", "s", " ", "y", "e", "a", "r">>,
    <<"b", "o", "n", "u", "s">> }

\* Every text of at most MaxWords phrases.
Questions == { Join(ws) : ws \in UNION { [1..k -> Phrases] : k \in 0..MaxWords } }

\* The schemas given to generateSQL: those of the discovered databases, and
\* one with the employees table alone.
Schemas == { db.schema_data : db \in discovered_databases } \cup { {"employees"} }

SynthInit ==
  /\ text \in Questions
  /\ schema_data \in Schemas
  /\ intent = ""
  /\ statement = ""
  /\ search = NoSearch
  /\ ProcessorIdle
  /\ now = 0
  /\ cache = {}
  /\ history = << >>
  /\ reqs = [r \in RequestIds |-> IdleRequest]

\* generateSQL is applied to the probe text and schema.
Synthesize ==
  /\ statement = ""
  /\ statement' = generateSQL(text, schema_data)
  /\ UNCHANGED << text, intent, schema_data, search, engineVars, processorVars >>

SynthNext == Synthesize

SynthSpec == SynthInit /\ [][SynthNext]_vars

\* A probe call of match_documents: any similarities of the stored chunks to
\* the query embedding, a match_count of at most MaxMatchCount, a caller or
\* no user_id, and any resolution of the ambiguous name.
SearchInit ==
  /\ \E sim \in [ChunkIds -> Levels], match_count \in 0..MaxMatchCount,
        user_id \in Users \cup {None}, variable_conflict \in VariableConflicts :
       search = [ sim |-> sim, match_count |-> match_count, user_id |-> user_id,
                  variable_conflict |-> variable_conflict,
                  data |-> None, error |-> "" ]
  /\ text = << >>
  /\ intent = ""
  /\ schema_data = {}
  /\ statement = ""
  /\ now = 0
  /\ cache = {}
  /\ history = << >>
  /\ reqs = [r \in RequestIds |-> IdleRequest]
  /\ ProcessorIdle

\* rpc('match_documents', ...): the rows, or the error of the ambiguous name.
Search ==
  /\ search.data = None
  /\ search.error = ""
  /\ IF search.variable_conflict = "error"
       THEN search' = [search EXCEPT !.error = "42702"]
       ELSE \E rows \in match_documents(search.sim, MatchThreshold, search.match_count,
                                        search.user_id, search.variable_conflict) :
              search' = [search EXCEPT !.data = Some(rows), !.error = "none"]
  /\ UNCHANGED << text, intent, schema_data, statement, engineVars, processorVars >>

SearchNext == Search

SearchSpec == SearchInit /\ [][SearchNext]_vars

(***************************************************************************)
(* Properties                                                              *)
(***************************************************************************)

\* The (query, databaseId, userId) of a request.
Triple(r) == << reqs[r].query, reqs[r].databaseId, reqs[r].user >>

\* A result without its performance metrics: intent, rows, matches,
\* statement and sources.
Payload(result) ==
  [f \in DOMAIN result \ {"performanceMetrics"} |-> result[f]]

\* The request has been answered with a result.
Answered(r) ==
  /\ reqs[r].pc = "done"
  /\ reqs[r].resp[1].status = 200

\* C1: a request whose lookup found an unexpired entry is answered with the
\* cached result, marked cacheHit = true and with resultsCount unchanged, and
\* has invoked no classifier, catalog, synthesizer, executor, embedder or
\* vector search.
CacheHitAnswersFromCache ==
  \A r \in RequestIds :
    (reqs[r].pc = "done" /\ reqs[r].cachedResult # None) =>
      /\ reqs[r].resp[1].status = 200
      /\ Payload(reqs[r].resp[1].body) = Payload(reqs[r].cachedResult[1])
      /\ reqs[r].resp[1].body.performanceMetrics.cacheHit = TRUE
      /\ reqs[r].resp[1].body.performanceMetrics.resultsCount
           = reqs[r].cachedResult[1].performanceMetrics.resultsCount
      /\ reqs[r].calls = {}

CacheKeyInjective ==
  \A r1, r2 \in RequestIds :
    (reqs[r1].cacheKey # << >> /\ reqs[r2].cacheKey # << >>) =>
      (reqs[r1].cacheKey = reqs[r2].cacheKey <=> Triple(r1) = Triple(r2))

\* C4: when a call has been answered with a result and an identical call then
\* finds that result unexpired in the cache, the second call is answered with
\* cacheHit = true and the same payload as the first.
RepeatWithinTTLIsIdempotent ==
  \A r1, r2 \in RequestIds :
    ( /\ r1 # r2
      /\ Answered(r1)
      /\ reqs[r1].storeError = "none"
      /\ reqs[r2].pc = "done"
      /\ Triple(r2) = Triple(r1)
      /\ reqs[r2].lookup = "live" ) =>
        /\ reqs[r2].resp[1].status = 200
        /\ reqs[r2].resp[1].body.performanceMetrics.cacheHit = TRUE
        /\ Payload(reqs[r2].resp[1].body) = Payload(reqs[r1].resp[1].body)

\* The collaborators a cache miss of each intent runs.
StepsOf(queryType) ==
  IF queryType = "sql" THEN {"classify", "schema", "synthesize", "execute"}
  ELSE IF queryType = "document" THEN {"classify", "embed", "search"}
  ELSE {"classify", "schema", "synthesize", "execute", "embed", "search"}

\* C5: a request that looks its key up strictly after the stored entry's
\* expires_at gets no cached result although the row is still stored; when it
\* is answered, the answer reports cacheHit = false and classification and
\* the steps of the classified intent have run again.
ExpiredEntryIsAbsent ==
  \A r \in RequestIds :
    reqs[r].lookup = "expired" =>
      /\ reqs[r].cachedResult = None
      /\ \E row \in cache : row.cache_key = reqs[r].cacheKey
      /\ Answered(r) =>
           /\ reqs[r].resp[1].body.performanceMetrics.cacheHit = FALSE
           /\ reqs[r].calls = StepsOf(reqs[r].queryType)

\* C5 (witness): a request that found its entry expired has been answered.
ExpiredEntryRecomputed ==
  \E r \in RequestIds : reqs[r].lookup = "expired" /\ Answered(r)

\* C6: a store that reaches the table for a key that already has a row leaves
\* exactly one row of that key, holding the stored result and the new
\* expires_at.
StoreReplacesEntry ==
  [][ \A r \in RequestIds :
        ( /\ reqs[r].pc = "cacheResult"
          /\ reqs'[r].pc = "storeQueryHistory"
          /\ reqs'[r].storeError # "unavailable"
          /\ \E row \in cache : row.cache_key = reqs[r].cacheKey ) =>
            /\ Cardinality({row \in cache' : row.cache_key = reqs[r].cacheKey}) = 1
            /\ \A row \in cache' :
                 row.cache_key = reqs[r].cacheKey =>
                   /\ row.results = reqs'[r].result[1]
                   /\ row.expires_at = now + TTL ]_vars

\* C7: no hit is lost: the hit_count of every entry is the number of
\* requests that hit it (and went through updateCacheHit), in whatever order
\* the hits interleaved.
HitCountCountsHits ==
  \A row \in cache :
    row.hit_count =
      Cardinality({ r \in RequestIds : /\ reqs[r].pc = "done"
                                       /\ reqs[r].cachedResult # None
                                       /\ reqs[r].cacheKey = row.cache_key })

\* C8: every row that enters the table or changes in it is the row of a
\* request then storing its result: it holds that result, computed at this
\* instant (responseTime = now - startTime), and expires exactly TTL later.
StoredEntryExpiresAfterTTL ==
  [][ \A row \in cache' \ cache :
        /\ row.expires_at = now + TTL
        /\ row.expires_at > row.created_at
        /\ \E r \in RequestIds :
             /\ reqs[r].pc = "cacheResult"
             /\ reqs'[r].pc = "storeQueryHistory"
             /\ row.results = reqs'[r].result[1]
             /\ row.results.performanceMetrics.responseTime = now - reqs[r].startTime
      ]_vars

\* C8 (witness): an entry is stored whose result took time to compute.
EntryStoredLate ==
  \E row \in cache :
    /\ row.results.performanceMetrics.responseTime > 0
    /\ row.expires_at = row.created_at + TTL

UpperCaseLetters ==
  << "A", "B", "C", "D", "E", "F", "G", "H", "I", "J", "K", "L", "M",
     "N", "O", "P", "Q", "R", "S", "T", "U", "V", "W", "X", "Y", "Z" >>

LowerCaseLetters ==
  << "a", "b", "c", "d", "e", "f", "g", "h", "i", "j", "k", "l", "m",
     "n", "o", "p", "q", "r", "s", "t", "u", "v", "w", "x", "y", "z" >>

\* The character c with its case folded.
Folded(c) ==
  IF \E i \in 1..26 : UpperCaseLetters[i] = c
    THEN LowerCaseLetters[CHOOSE i \in 1..26 : UpperCaseLetters[i] = c]
    ELSE c

\* The keyword occurs somewhere in the text, letter case aside.
Occurs(keyword, t) ==
  \E at \in 0..(Len(t) - Len(keyword)) :
    \A j \in 1..Len(keyword) : Folded(t[at + j]) = keyword[j]

Structural(t) == \E n \in 1..Len(sqlKeywords) : Occurs(sqlKeywords[n], t)

Unstructured(t) == \E n \in 1..Len(docKeywords) : Occurs(docKeywords[n], t)

\* C9: classifyQuery answers every text, and its answer is decided by which
\* keyword lists occur in the text, letter case aside: hybrid when a
\* structural and an unstructured keyword occur, document when only an
\* unstructured one does, sql otherwise.
ClassifiedByKeywordMembership ==
  intent # "" =>
    /\ intent \in {"sql", "document", "hybrid"}
    /\ intent = (IF Structural(text) /\ Unstructured(text) THEN "hybrid"
                 ELSE IF Unstructured(text) THEN "document"
                 ELSE "sql")

\* C9 (witness): a text of two words, one holding a keyword of each list, has
\* been classified hybrid.
HybridTextClassified ==
  /\ intent = "hybrid"
  /\ Structural(text)
  /\ Unstructured(text)
  /\ \E i \in 1..Len(text) : text[i] = " "

\* The shape of a result: a sql result has rows and no matches, a document
\* result has matches and no rows, a hybrid result has both.
WellShaped(result) ==
  /\ result.queryType \in {"sql", "document", "hybrid"}
  /\ result.queryType = "sql" =>
       "sqlResults" \in DOMAIN result /\ "documentResults" \notin DOMAIN result
  /\ result.queryType = "document" =>
       "documentResults" \in DOMAIN result /\ "sqlResults" \notin DOMAIN result
  /\ result.queryType = "hybrid" =>
       "sqlResults" \in DOMAIN result /\ "documentResults" \in DOMAIN result

\* C10: every result the handler returns or caches is well shaped.
ResultsWellShaped ==
  /\ \A r \in RequestIds : Answered(r) => WellShaped(reqs[r].resp[1].body)
  /\ \A row \in cache : WellShaped(row.results)

\* C10 (witness): a hybrid result with no document match has been cached and
\* returned.
EmptyHandedHybridReturned ==
  \E r \in RequestIds :
    /\ Answered(r)
    /\ reqs[r].resp[1].body.queryType = "hybrid"
    /\ reqs[r].resp[1].body.documentResults = << >>
    /\ \E row \in cache : row.results = reqs[r].resp[1].body

\* The members of the QueryResult interface.
QueryResultFields ==
  { "queryType", "sqlResults", "documentResults", "generatedSQL",
    "performanceMetrics", "sources" }

\* C11: a hybrid request whose SQL leg succeeded and whose vector search
\* failed is answered with a result that holds the SQL leg's rows and, beside
\* the members of a QueryResult, an indicator of the partial failure.
PartialHybridFailureSurfaced ==
  \A r \in RequestIds :
    ( /\ reqs[r].pc = "done"
      /\ reqs[r].queryType = "hybrid"
      /\ reqs[r].sqlResult # None
      /\ reqs[r].searchError = "unavailable" ) =>
        /\ reqs[r].resp[1].status = 200
        /\ Field(reqs[r].resp[1].body, "sqlResults")
             = Some(reqs[r].sqlResult[1].sqlResults)
        /\ DOMAIN reqs[r].resp[1].body \ QueryResultFields # {}

\* C12: a hybrid request whose schema lookup failed has still run its
\* document leg, and when that leg succeeded it is answered with the
\* document matches and an empty SQL half.
SqlLegFailureKeepsDocumentLeg ==
  \A r \in RequestIds :
    ( /\ reqs[r].pc = "done"
      /\ reqs[r].queryType = "hybrid"
      /\ "schema" \in reqs[r].calls
      /\ reqs[r].sqlResult = None ) =>
        /\ "search" \in reqs[r].calls
        /\ reqs[r].searchError = "none" =>
             /\ reqs[r].resp[1].status = 200
             /\ "documentResults" \in DOMAIN reqs[r].resp[1].body
             /\ Field(reqs[r].resp[1].body, "sqlResults") \in {None, Some(<< >>)}

\* Every leg the request's intent has, has failed: the schema lookup of a sql
\* query, the vector search of a document query, both of a hybrid query.
AllLegsFailed(r) ==
  LET sqlLegFailed == "schema" \in reqs[r].calls /\ "execute" \notin reqs[r].calls
      documentLegFailed == reqs[r].searchError = "unavailable"
  IN  \/ reqs[r].queryType = "sql" /\ sqlLegFailed
      \/ reqs[r].queryType = "document" /\ documentLegFailed
      \/ reqs[r].queryType = "hybrid" /\ sqlLegFailed /\ documentLegFailed

\* C13: a request all of whose legs failed is answered with a failure that
\* carries no result, and has attempted neither the cache store nor the
\* history append.
TotalFailureLeavesNoTrace ==
  \A r \in RequestIds :
    (reqs[r].pc = "done" /\ AllLegsFailed(r)) =>
      /\ reqs[r].resp[1].status # 200
      /\ DOMAIN reqs[r].resp[1].body \cap QueryResultFields = {}
      /\ reqs[r].storeError = ""
      /\ reqs[r].historyError = ""

\* C14: a result is returned with an empty sequence of document matches only
\* when the vector search succeeded (and nothing cleared the threshold).
EmptyMatchesMeanNoMatch ==
  \A r \in RequestIds :
    ( /\ Answered(r)
      /\ Field(reqs[r].resp[1].body, "documentResults") = Some(<< >>) ) =>
        reqs[r].searchError = "none"

\* C15: a request whose cache store or history append returned an error is
\* still answered with the result it computed.
WriteFailuresKeepTheResult ==
  \A r \in RequestIds :
    ( /\ reqs[r].pc = "done"
      /\ \/ reqs[r].storeError \notin {"", "none"}
         \/ reqs[r].historyError \notin {"", "none"} ) =>
        /\ reqs[r].resp[1].status = 200
        /\ reqs[r].resp[1].body = reqs[r].result[1]
        /\ WellShaped(reqs[r].resp[1].body)

\* C15 (witness): a request has been answered with its result although its
\* store was rejected by the UNIQUE constraint and its append failed.
BothWritesFailedAndAnswered ==
  \E r \in RequestIds :
    /\ Answered(r)
    /\ reqs[r].storeError = "23505"
    /\ reqs[r].historyError = "unavailable"

\* C16: whenever a request is answered with a result, that step appends
\* exactly one record to the history: the record of this caller and query,
\* with the cacheHit the response reports.
EveryAnswerIsRecorded ==
  [][ \A r \in RequestIds :
        ( /\ reqs[r].resp = None
          /\ reqs'[r].resp # None
          /\ reqs'[r].resp[1].status = 200 ) =>
            /\ Len(history') = Len(history) + 1
            /\ SubSeq(history', 1, Len(history)) = history
            /\ history'[Len(history')].user_id = reqs[r].user
            /\ history'[Len(history')].query_text = reqs[r].query
            /\ history'[Len(history')].performance_metrics.cacheHit
                 = reqs'[r].resp[1].body.performanceMetrics.cacheHit ]_vars

\* C17: a request without a valid caller identity (no Authorization header,
\* or a token of no user) is answered Unauthorized, and has run no cache
\* lookup, schema lookup, execution, embedding, search, store or append.
UnidentifiedCallerIsUnauthorized ==
  \A r \in RequestIds :
    (reqs[r].pc = "done" /\ reqs[r].user = None) =>
      /\ reqs[r].resp[1] = Unauthorized
      /\ reqs[r].lookup = ""
      /\ reqs[r].calls = {}
      /\ reqs[r].searchError = ""
      /\ reqs[r].storeError = ""
      /\ reqs[r].historyError = ""

\* The caller of the request owns no discovered database of the requested
\* id.
OwnsNoSuchDatabase(r) ==
  ~ \E db \in discovered_databases :
      db.id = reqs[r].databaseId /\ db.user_id = reqs[r].user

\* C18: a request classified sql or hybrid on a cache miss whose caller owns
\* no discovered database of the requested id is answered with the failure
\* 'Database not found', and no statement has been generated or executed for
\* it.
UnownedSchemaIsNotFound ==
  \A r \in RequestIds :
    (reqs[r].queryType \in {"sql", "hybrid"} /\ OwnsNoSuchDatabase(r)) =>
      /\ reqs[r].pc = "done"
      /\ reqs[r].resp[1] = Failed("Database not found")
      /\ "schema" \in reqs[r].calls
      /\ reqs[r].calls \cap {"synthesize", "execute"} = {}
      /\ reqs[r].sqlResult = None
      /\ reqs[r].result = None

\* C18 (witness): a sql request and a hybrid request have each named a
\* database that exists but belongs to another caller, and have been refused.
OthersDatabaseRefused ==
  \A queryType \in {"sql", "hybrid"} :
    \E r \in RequestIds :
      /\ reqs[r].queryType = queryType
      /\ OwnsNoSuchDatabase(r)
      /\ \E db \in discovered_databases : db.id = reqs[r].databaseId
      /\ reqs[r].resp = Some(Failed("Database not found"))

\* The templates in their order: the phrase of each and the statements it
\* can give.
Templates ==
  << [phrase |-> kHowManyEmployees, statements |-> {SqlCount}],
     [phrase |-> kAverageSalary, statements |-> {SqlAvg, SqlAvgByDept}],
     [phrase |-> kHighestPaid, statements |-> {SqlTop, SqlTopByDept}],
     [phrase |-> kHiredThisYear, statements |-> {SqlHiredThisYear}] >>

\* The templates whose phrase occurs in the text, letter case aside.
Matched(t) == { n \in 1..Len(Templates) : Occurs(Templates[n].phrase, t) }

\* C19: generateSQL answers every text with a statement: one of the first
\* template, in the order of Templates, whose phrase occurs in the text,
\* letter case aside, and the default statement (all columns of employees,
\* 10 rows) when no phrase occurs.
SynthesizedByFirstTemplate ==
  statement # "" =>
    IF Matched(text) = {}
      THEN statement = "SELECT * FROM employees LIMIT 10;"
      ELSE \E n \in Matched(text) :
             /\ \A m \in Matched(text) : n <= m
             /\ statement \in Templates[n].statements

\* C19 (witness): a text holds the phrases of two templates, the later
\* template's phrase first, and has been answered with the statement of the
\* earlier template.
EarlierTemplateWon ==
  \E n, m \in Matched(text) :
    /\ n < m
    /\ statement \in Templates[n].statements
    /\ \E at \in 1..Len(text) :
         /\ Occurs(Templates[m].phrase, SubSeq(text, 1, at))
         /\ ~ Occurs(Templates[n].phrase, SubSeq(text, 1, at))

\* The tables a statement reads.
ReferencedTables(sql) ==
  IF sql \in {SqlAvgByDept, SqlTopByDept}
    THEN {"employees", "departments"}
    ELSE {"employees"}

\* C20: a statement generateSQL gives for a matched template reads only
\* tables of the schema it was given; otherwise the default statement is
\* given.
StatementsReferToSchema ==
  (statement # "" /\ Matched(text) # {}) =>
    \/ ReferencedTables(statement) \subseteq schema_data
    \/ statement = SqlDefault

\* The owner of the parent document of a chunk.
OwnerOf(chunkId) == (CHOOSE c \in Chunks : c.id = chunkId).user_id

InScope ==
  { c \in Chunks : \/ search.user_id = None
                   \/ search.variable_conflict = "use_column"
                   \/ c.user_id = search.user_id }

FilenameOf(chunkId) == (CHOOSE c \in Chunks : c.id = chunkId).filename

\* Where the data of a result comes from: "database" when it holds SQL rows,
\* then the filename of each of its document matches, match by match.
Provenance(result) ==
  (IF "sqlResults" \in DOMAIN result THEN << "database" >> ELSE << >>)
    \o (IF "documentResults" \in DOMAIN result
          THEN [i \in 1..Len(result.documentResults) |->
                  FilenameOf(result.documentResults[i].id)]
          ELSE << >>)

\* C23: the sources of every returned or cached result are its provenance:
\* "database" alone for a sql result, the filenames of the matches for a
\* document result, "database" followed by the filenames of the matches for a
\* hybrid result.
SourcesAreProvenance ==
  /\ \A r \in RequestIds :
       Answered(r) => reqs[r].resp[1].body.sources = Provenance(reqs[r].resp[1].body)
  /\ \A row \in cache : row.results.sources = Provenance(row.results)

\* C23 (witness): a hybrid result with two document matches and three sources
\* has been returned.
HybridWithMatchesReturned ==
  \E r \in RequestIds :
    /\ Answered(r)
    /\ reqs[r].resp[1].body.queryType = "hybrid"
    /\ Len(reqs[r].resp[1].body.documentResults) = 2
    /\ Len(reqs[r].resp[1].body.sources) = 3

\* The request missed the cache and its store reached the table.
MissedAndStored(r) ==
  /\ reqs[r].cachedResult = None
  /\ reqs[r].storeError \in {"none", "23505"}

CancelledCallIsAborted ==
  [][ \A r \in RequestIds :
        (reqs[r].cancelled /\ reqs'[r] # reqs[r]) =>
          /\ reqs'[r].pc = "done"
          /\ reqs'[r].resp[1].status # 200
          /\ reqs'[r].calls = reqs[r].calls
          /\ cache' = cache
          /\ history' = history ]_vars

\* C26: a lookup made at the very instant now = expires_at still finds the
\* entry.
BoundaryLookupFindsEntry ==
  \A r \in RequestIds :
    reqs[r].lookup = "atExpiry" => reqs[r].cachedResult # None

\* C27: when a request found the entry of its key expired, was answered with
\* a recomputed result and its store reached the table, the table holds that
\* result under the key with an expires_at set after the call began.
ExpiredKeyRecovers ==
  \A r \in RequestIds :
    ( /\ reqs[r].lookup = "expired"
      /\ Answered(r)
      /\ reqs[r].storeError # "unavailable" ) =>
        \E row \in cache :
          /\ row.cache_key = reqs[r].cacheKey
          /\ row.results = reqs[r].result[1]
          /\ row.expires_at >= reqs[r].startTime + TTL

\* The row without its hit_count and last_accessed.
Kept(row) ==
  [f \in DOMAIN row \ {"hit_count", "last_accessed"} |-> row[f]]

\* C28: the step of a cache hit leaves the result, query_text and expires_at
\* of every row as they were; and a row is only ever found by a lookup
\* before its expires_at, which is TTL after it was stored.
HitsLeaveEntryAlone ==
  /\ [][ \A r \in RequestIds :
           ( /\ reqs[r].pc = "checked"
             /\ reqs[r].cachedResult # None
             /\ reqs'[r].pc = "done" ) =>
               { Kept(row) : row \in cache' } = { Kept(row) : row \in cache } ]_vars
  /\ [] \A r \in RequestIds :
          reqs[r].cachedResult # None =>
            /\ reqs[r].lookup = "live"
            /\ \A row \in cache :
                 row.cache_key = reqs[r].cacheKey =>
                   row.expires_at = row.created_at + TTL

\* C28 (witness): a request has gone through the hit branch.
HitBranchTaken ==
  \E r \in RequestIds :
    /\ reqs[r].pc = "done"
    /\ reqs[r].cachedResult # None
    /\ \E row \in cache : row.results = reqs[r].cachedResult[1]

\* C29: the record a request appends to the history carries the cache key
\* the request looked up and stored its result under.
HistoryJoinsCache ==
  [][ \A r \in RequestIds :
        ( /\ reqs[r].pc = "storeQueryHistory"
          /\ reqs'[r].pc = "done"
          /\ Len(history') = Len(history) + 1 ) =>
            history'[Len(history')].cache_key = reqs[r].cacheKey ]_vars

\* C30: once the upload has been answered, no document record it created is
\* left in status 'processing': a record is 'error' when a chunk of its file
\* could not be stored, and 'completed' otherwise.
UploadsLeaveProcessing ==
  upload.pc = "done" =>
    \A doc \in documents :
      /\ doc.status # "processing"
      /\ doc.status = (IF doc.id \in upload.unstored THEN "error" ELSE "completed")

====
